---- MODULE Spec2Model ----
(***************************************************************************)
(* A model of duplicate_finder.DuplicateFinder (duplicate_finder.py) and   *)
(* of the helpers of utils.py it calls.  One run() of the finder is a      *)
(* sequential pipeline (normalize, scan, hash, group, print, report,       *)
(* delete); the hashing stage consumes the completions of the pool's       *)
(* futures in an arbitrary order, and every filesystem call of the         *)
(* pipeline may fail (the file was removed, made unreadable, or its        *)
(* directory made read-only by another process).                           *)
(*                                                                         *)
(* Strings are sequences of one-character strings, so that strip(),        *)
(* fnmatch() and the size parser are computed character by character.      *)
(***************************************************************************)
EXTENDS Integers, Sequences, FiniteSets, TLC

(***************************************************************************)
(* Bounds of the model.                                                    *)
(***************************************************************************)
\* How many filesystem calls of one run may fail.
MaxFaults == 1
\* How many invalid answers the user gives to one interactive prompt.
MaxInvalid == 1

(***************************************************************************)
(* Characters and strings.                                                 *)
(***************************************************************************)
Ord(c) ==
    CASE c = " " -> 32
      [] c = "*" -> 42
      [] c = "." -> 46
      [] c = "/" -> 47
      [] c = "?" -> 63
      [] c = "a" -> 97
      [] c = "b" -> 98
      [] c = "c" -> 99
      [] c = "r" -> 114
      [] OTHER -> 0

IsSpace(c) == c = " "

RECURSIVE LStrip(_)
LStrip(s) ==
    IF s # <<>> /\ IsSpace(Head(s)) THEN LStrip(Tail(s)) ELSE s

RECURSIVE RStrip(_)
RStrip(s) ==
    IF s # <<>> /\ IsSpace(s[Len(s)])
    THEN RStrip(SubSeq(s, 1, Len(s) - 1))
    ELSE s

\* str.strip()
Strip(s) == RStrip(LStrip(s))

\* str < str: lexicographic by code point.
RECURSIVE StrLess(_, _)
StrLess(s, t) ==
    IF t = <<>> THEN FALSE
    ELSE IF s = <<>> THEN TRUE
    ELSE IF Head(s) # Head(t) THEN Ord(Head(s)) < Ord(Head(t))
    ELSE StrLess(Tail(s), Tail(t))

\* fnmatch.fnmatch(name, pat) on POSIX (normcase is the identity there):
\* "*" matches any run of characters ("/" included), "?" any one character,
\* any other character itself; the whole name must match.
RECURSIVE FnMatchFrom(_, _, _, _)
FnMatchFrom(name, i, pat, j) ==
    IF j > Len(pat) THEN i > Len(name)
    ELSE IF pat[j] = "*"
         THEN \/ FnMatchFrom(name, i, pat, j + 1)
              \/ (i <= Len(name) /\ FnMatchFrom(name, i + 1, pat, j))
    ELSE IF i > Len(name) THEN FALSE
    ELSE IF pat[j] = "?" THEN FnMatchFrom(name, i + 1, pat, j + 1)
    ELSE name[i] = pat[j] /\ FnMatchFrom(name, i + 1, pat, j + 1)

fnmatch(name, pat) == FnMatchFrom(name, 1, pat, 1)

(***************************************************************************)
(* The files under the scanned folder /r.  A path is named by its index in *)
(* PathParts, which gives its parts below the root.                        *)
(***************************************************************************)
PathParts ==
    << << <<"a", ".", "b">> >>,                  \* /r/a.b
       << <<"a">>, <<"b">> >>,                   \* /r/a/b
       << <<"b">> >>,                            \* /r/b
       << <<"a">>, <<"a", ".", "b">> >>,         \* /r/a/a.b
       << <<"c">> >> >>                          \* /r/c

Paths == DOMAIN PathParts

RECURSIVE JoinParts(_)
JoinParts(parts) ==
    IF parts = <<>> THEN <<>>
    ELSE <<"/">> \o Head(parts) \o JoinParts(Tail(parts))

\* Path.as_posix()
as_posix(p) == <<"/", "r">> \o JoinParts(PathParts[p])

\* Path.__lt__: the parts are compared as a tuple of strings.
RECURSIVE PartsLess(_, _)
PartsLess(a, b) ==
    IF b = <<>> THEN FALSE
    ELSE IF a = <<>> THEN TRUE
    ELSE IF Head(a) # Head(b) THEN StrLess(Head(a), Head(b))
    ELSE PartsLess(Tail(a), Tail(b))

PathLess(p, q) == PartsLess(PathParts[p], PathParts[q])

\* A variant of InsertSorted that puts p first, wherever it belongs.
InsertFirst(p, s) == <<p>> \o s

\* sorted(group): insertion into an ascending list.
RECURSIVE InsertSorted(_, _)
InsertSorted(p, s) ==
    IF s = <<>> THEN <<p>>
    ELSE IF PathLess(p, Head(s)) THEN <<p>> \o s
    ELSE <<Head(s)>> \o InsertSorted(p, Tail(s))

\* A variant of sorted that leaves the list as it is.
unsorted(s) == s

RECURSIVE sorted(_)
sorted(s) ==
    IF s = <<>> THEN <<>> ELSE InsertSorted(Head(s), sorted(Tail(s)))

Range(s) == {s[i] : i \in DOMAIN s}

(***************************************************************************)
(* Size strings (utils.str_file_size_to_int, _normalize_size).             *)
(***************************************************************************)
Digits == {"0", "1", "2", "3", "4", "5", "6", "7", "8", "9"}

DigitVal(c) ==
    CASE c = "0" -> 0 [] c = "1" -> 1 [] c = "2" -> 2 [] c = "3" -> 3
      [] c = "4" -> 4 [] c = "5" -> 5 [] c = "6" -> 6 [] c = "7" -> 7
      [] c = "8" -> 8 [] c = "9" -> 9 [] OTHER -> 0

\* str.upper() on the letters a unit is written with.
UpperChar(c) ==
    CASE c = "k" -> "K" [] c = "m" -> "M" [] c = "g" -> "G" [] c = "t" -> "T"
      [] c = "i" -> "I" [] c = "b" -> "B" [] OTHER -> c

Upper(s) == [i \in DOMAIN s |-> UpperChar(s[i])]

Drop(s, n) == SubSeq(s, n + 1, Len(s))

\* The length of the longest prefix of s made of characters of cs.
RECURSIVE PrefixLen(_, _)
PrefixLen(s, cs) ==
    IF s # <<>> /\ Head(s) \in cs THEN 1 + PrefixLen(Tail(s), cs) ELSE 0

\* The length of the prefix the group (\d*\.?\d*) takes.
NumberLen(s) ==
    LET a == PrefixLen(s, Digits)
        r == Drop(s, a)
    IN  IF r # <<>> /\ Head(r) = "."
        THEN a + 1 + PrefixLen(Tail(r), Digits)
        ELSE a

RECURSIVE Pow(_, _)
Pow(b, e) == IF e = 0 THEN 1 ELSE b * Pow(b, e - 1)

\* The dict "units" of str_file_size_to_int: unit -> <<base, exponent>>,
\* the multiplier being base^exponent.
units ==
    [u \in { <<>>, <<"B">>,
             <<"K">>, <<"K", "B">>, <<"M">>, <<"M", "B">>,
             <<"G">>, <<"G", "B">>, <<"T">>, <<"T", "B">>,
             <<"K", "I">>, <<"K", "I", "B">>, <<"M", "I">>, <<"M", "I", "B">>,
             <<"G", "I">>, <<"G", "I", "B">>, <<"T", "I">>, <<"T", "I", "B">> }
       |->
     IF u = <<>> \/ u = <<"B">> THEN <<10, 0>>
     ELSE LET e == CASE u[1] = "K" -> 1 [] u[1] = "M" -> 2
                     [] u[1] = "G" -> 3 [] u[1] = "T" -> 4
          IN  IF Len(u) >= 2 /\ u[2] = "I" THEN <<1024, e>> ELSE <<1000, e>>]

\* Whether u (upper case) matches [KMGT]?I?B? ; with needB, [KMGT]?I?B.
UnitShape(u, needB) ==
    LET a == IF u # <<>> /\ Head(u) \in {"K", "M", "G", "T"} THEN 1 ELSE 0
        r1 == Drop(u, a)
        b == IF r1 # <<>> /\ Head(r1) = "I" THEN 1 ELSE 0
        r2 == Drop(r1, b)
    IN  IF needB THEN r2 = <<"B">> ELSE r2 \in {<<>>, <<"B">>}

\* float(number) for a string of digits and dots: a value only for
\* digits with at most one dot and at least one digit.
FloatOk(number) ==
    /\ Cardinality({i \in DOMAIN number : number[i] = "."}) <= 1
    /\ \E i \in DOMAIN number : number[i] \in Digits

RECURSIVE DigitsValue(_, _)
DigitsValue(s, acc) ==
    IF s = <<>> THEN acc
    ELSE IF Head(s) = "." THEN DigitsValue(Tail(s), acc)
    ELSE DigitsValue(Tail(s), 10 * acc + DigitVal(Head(s)))

FracDigits(number) ==
    IF \E i \in DOMAIN number : number[i] = "."
    THEN Len(number) - (CHOOSE i \in DOMAIN number : number[i] = ".")
    ELSE 0

\* int(float(number) * multiplier), in exact arithmetic.
ScaledInt(number, mult) ==
    (DigitsValue(number, 0) * mult) \div Pow(10, FracDigits(number))

\* utils.str_file_size_to_int: [ok |-> FALSE] stands for ValueError.
str_file_size_to_int(size_str) ==
    LET s == Strip(size_str)
        n == PrefixLen(s, Digits \cup {"."})
        number == SubSeq(s, 1, n)
        unit == Upper(LStrip(Drop(s, n)))
    IN  IF n = 0 \/ ~UnitShape(unit, FALSE) THEN [ok |-> FALSE, value |-> 0]
        ELSE IF unit \notin DOMAIN units THEN [ok |-> FALSE, value |-> 0]
        ELSE IF ~FloatOk(number) THEN [ok |-> FALSE, value |-> 0]
        ELSE [ok |-> TRUE,
              value |-> ScaledInt(number, Pow(units[unit][1], units[unit][2]))]

\* An optional value: None, or Some(v).
None == [none |-> TRUE]
Some(v) == [none |-> FALSE, val |-> v]

\* A variant of normalize_size that swallows the ValueError: a size it
\* cannot read is no bound.
normalize_size_forgiving(size) ==
    IF size.none THEN [ok |-> TRUE, value |-> None]
    ELSE LET r == str_file_size_to_int(size.val)
         IN  IF r.ok THEN [ok |-> TRUE, value |-> Some(r.value)]
             ELSE [ok |-> TRUE, value |-> None]

\* DuplicateFinder._normalize_size: None stays None; [ok |-> FALSE] stands
\* for the ValueError raised.
normalize_size(size) ==
    IF size.none THEN [ok |-> TRUE, value |-> None]
    ELSE LET s == LStrip(size.val)
             n == NumberLen(s)
             number == SubSeq(s, 1, n)
             unit == Upper(Strip(Drop(s, n)))
             r == str_file_size_to_int(size.val)
         IN  IF ~(unit = <<>> \/ UnitShape(unit, TRUE))
             THEN [ok |-> FALSE, value |-> None]
             ELSE IF number = <<>> \/ number = <<".">>
             THEN [ok |-> FALSE, value |-> None]
             ELSE IF ~r.ok THEN [ok |-> FALSE, value |-> None]
             ELSE [ok |-> TRUE, value |-> Some(r.value)]

\* DuplicateFinder._normalize_patterns: None stays None; every pattern is
\* stripped and the blank ones are dropped.
RECURSIVE StripAll(_)
StripAll(patterns) ==
    IF patterns = <<>> THEN <<>>
    ELSE IF Strip(Head(patterns)) = <<>> THEN StripAll(Tail(patterns))
    ELSE <<Strip(Head(patterns))>> \o StripAll(Tail(patterns))

normalize_patterns(patterns) ==
    IF patterns.none THEN None ELSE Some(StripAll(patterns.val))

(***************************************************************************)
(* File contents, digests and dicts.                                       *)
(***************************************************************************)
\* The contents a file may hold: byte strings of 1 or 2 bytes.
Contents == {<<0>>, <<1>>, <<0, 0>>}

\* A regular file, or a symlink whose target is a regular file.
FileStates ==
    [kind : {"file"}, content : Contents]
        \cup [kind : {"symlink"}, content : {<<0>>}]

\* An entry of rglob("*") that is a directory.
Directory == [kind |-> "dir", content |-> <<>>]

Digests == {"h1", "h2", "h3"}

\* The digest function is any function of the content.  Digests are only
\* compared for equality, so one assignment per partition of Contents is
\* enough: the first content gets h1, the next a used digest or the next
\* unused one.
DigestAssignments ==
    {d \in [Contents -> Digests] :
        /\ d[<<0>>] = "h1"
        /\ d[<<1>>] \in {"h1", "h2"}
        /\ (d[<<0, 0>>] = "h3" => d[<<1>>] = "h2")}

\* A dict is the sequence of its items [key, files] in insertion order.
HasKey(d, k) == \E i \in DOMAIN d : d[i].key = k

\* A variant of DictAppend that assigns the list instead of appending to
\* it: d[k] = [p].
DictAppendOverwrite(d, k, p) ==
    IF HasKey(d, k)
    THEN [i \in DOMAIN d |->
            IF d[i].key = k THEN [key |-> k, files |-> <<p>>] ELSE d[i]]
    ELSE Append(d, [key |-> k, files |-> <<p>>])

\* A variant of DictAppend that appends p to every list of the dict, the
\* list of k among them.
DictAppendEverywhere(d, k, p) ==
    LET e == IF HasKey(d, k) THEN d ELSE Append(d, [key |-> k, files |-> <<>>])
    IN  [i \in DOMAIN e |-> [key |-> e[i].key, files |-> Append(e[i].files, p)]]

\* defaultdict(list): d[k].append(p)
DictAppend(d, k, p) ==
    IF HasKey(d, k)
    THEN [i \in DOMAIN d |->
            IF d[i].key = k
            THEN [key |-> k, files |-> Append(d[i].files, p)]
            ELSE d[i]]
    ELSE Append(d, [key |-> k, files |-> <<p>>])

\* The paths held by a dict, and by a list of groups.
DictPaths(d) == UNION {Range(d[i].files) : i \in DOMAIN d}
GroupPaths(gs) == UNION {Range(gs[i]) : i \in DOMAIN gs}

\* utils.files_are_identical on the contents of two readable files.
files_are_identical(c1, c2) ==
    IF Len(c1) # Len(c2) THEN FALSE ELSE c1 = c2

(***************************************************************************)
(* The state.                                                              *)
(***************************************************************************)
VARIABLES
    args,           \* the arguments of run()
    fs,             \* the files under the folder: path -> FileStates
    digest,         \* the digest of every content
    faultsLeft,     \* how many more filesystem calls may fail
    pc,             \* where run() is
    self,           \* the normalized settings run() stores on the object
    file_groups,    \* self.file_groups
    duplicates,     \* self.duplicates
    files_by_hash,  \* _group_files_by_hash: the dict being filled
    pending,        \* _group_files_by_hash: the futures not yet consumed
    del,            \* the locals of the deletion in progress
    io,             \* what the run did to the outside: unlinks, prompts, reports
    ver             \* the locals of a call of _verify_content

vars == <<args, fs, digest, faultsLeft, pc, self, file_groups, duplicates,
          files_by_hash, pending, del, io, ver>>

inputs == <<args, fs, digest>>

\* The truth value Python gives an optional int, and an optional list.
TruthyInt(opt) == ~opt.none /\ opt.val # 0
TruthyList(opt) == ~opt.none /\ opt.val # <<>>

st_size(p) == Len(fs[p].content)
\* A variant of calc_file_sha256 whose read loop never runs: every file
\* gets the digest of the empty input.
calc_file_sha256_unread(p) == "h1"

calc_file_sha256(p) == digest[fs[p].content]

\* The outcomes a filesystem call on p can have: TRUE when it succeeds.
\* A call on a file the run has unlinked fails; any other call may fail
\* while faultsLeft allows.
Outcomes(p) ==
    IF p \in io.unlinked THEN {FALSE}
    ELSE IF faultsLeft > 0 THEN {TRUE, FALSE} ELSE {TRUE}

NoDel == [gi |-> 0, mi |-> 0, to_delete |-> <<>>, invalid |-> 0,
          deleted_count |-> 0, total_deleted_size |-> 0,
          report_lines |-> <<>>]

\* answered: the (stripped) answers on which the prompt loop of
\* _interactive_deletion was left, each with the number of its group.
NoIO == [unlinked |-> {}, attempted |-> {}, confirms |-> 0, prompts |-> 0,
         cancelled |-> FALSE, answer |-> None, output_report |-> FALSE,
         delete_report |-> None, faulted |-> {}, error |-> "none",
         answered |-> {}]

\* k and compared: the length the bucket in hand had when the loop took
\* it, and the comparisons made on it so far.
NoVer == [bi |-> 0, group |-> <<>>, verified |-> <<>>,
          total_comparisons |-> 0, completed |-> 0, k |-> 0, compared |-> 0]

NoSelf == [exclude_patterns |-> None, include_patterns |-> None,
           min_size |-> None, max_size |-> None]

(***************************************************************************)
(* Stage 1: _group_files_by_size.                                          *)
(***************************************************************************)
\* A variant of IsRegularFile without "and not p.is_symlink()": is_file()
\* follows a symlink to its target.
IsFileFollowingLinks(p) == fs[p].kind \in {"file", "symlink"}

\* p.is_file() and not p.is_symlink()
IsRegularFile(p) == fs[p].kind = "file"

\* The size checks: the file goes on when neither "continue" is taken.
PassesSize(size, min_size, max_size) ==
    /\ ~(TruthyInt(min_size) /\ size < min_size.val)
    /\ ~(TruthyInt(max_size) /\ size > max_size.val)

AnyMatch(p, patterns) ==
    \E i \in DOMAIN patterns : fnmatch(as_posix(p), patterns[i])

\* A variant of PassesInclude that lets every file through.
PassesIncludeAll(p, include_patterns) == TRUE

PassesInclude(p, include_patterns) ==
    TruthyList(include_patterns) => AnyMatch(p, include_patterns.val)

\* A variant of PassesExclude that matches the file name (p.name) instead
\* of the whole path.
PassesExcludeByName(p, exclude_patterns) ==
    TruthyList(exclude_patterns) =>
        ~\E i \in DOMAIN exclude_patterns.val :
             fnmatch(PathParts[p][Len(PathParts[p])], exclude_patterns.val[i])

PassesExclude(p, exclude_patterns) ==
    TruthyList(exclude_patterns) => ~AnyMatch(p, exclude_patterns.val)

\* The loop over folder_path.rglob("*"), from the i-th entry on.  The
\* entries come in a fixed order (the order of a directory listing is the
\* filesystem's, and nothing after the hashing stage depends on it).  The
\* stat() of the files in failed raises OSError, which skips the file.
RECURSIVE ScanFrom(_, _, _)
ScanFrom(i, files_by_size, failed) ==
    IF i > Len(PathParts) THEN files_by_size
    ELSE IF /\ IsRegularFile(i)
            /\ i \notin failed
            /\ PassesSize(st_size(i), self.min_size, self.max_size)
            /\ PassesInclude(i, self.include_patterns)
            /\ PassesExclude(i, self.exclude_patterns)
         THEN ScanFrom(i + 1, DictAppend(files_by_size, st_size(i), i), failed)
         ELSE ScanFrom(i + 1, files_by_size, failed)

group_files_by_size(failed) == ScanFrom(1, <<>>, failed)

\* The sets of files whose call may fail in one stage.
FaultSets(S) == {F \in SUBSET S : Cardinality(F) <= faultsLeft}

(***************************************************************************)
(* Stage 2: _group_files_by_hash.                                          *)
(***************************************************************************)
RECURSIVE Flatten(_)
Flatten(ss) == IF ss = <<>> THEN <<>> ELSE Head(ss) \o Flatten(Tail(ss))

\* A variant of files_to_hash without the filter on the length: the files
\* of every size bucket.
files_to_hash_all(files_by_size) ==
    Flatten([i \in DOMAIN files_by_size |-> files_by_size[i].files])

\* files_to_hash: the files of the size buckets of more than one file.
files_to_hash(files_by_size) ==
    Flatten([i \in DOMAIN files_by_size |->
                IF Len(files_by_size[i].files) > 1
                THEN files_by_size[i].files ELSE <<>>])

(***************************************************************************)
(* Stage 3: _group_duplicates and _verify_content.                         *)
(***************************************************************************)
RECURSIVE SelectGroups(_)
SelectGroups(d) ==
    IF d = <<>> THEN <<>>
    ELSE IF Len(Head(d).files) > 1
         THEN <<sorted(Head(d).files)>> \o SelectGroups(Tail(d))
         ELSE SelectGroups(Tail(d))

\* A variant of InsertByKeyDesc without reverse=True: ascending by key.
RECURSIVE InsertByKeyAsc(_, _)
InsertByKeyAsc(e, s) ==
    IF s = <<>> THEN <<e>>
    ELSE IF Head(s).key <= e.key
         THEN <<Head(s)>> \o InsertByKeyAsc(e, Tail(s))
         ELSE <<e>> \o s

\* list.sort(key=..., reverse=True) on a list of [key, group]: a stable
\* sort, descending by key.
RECURSIVE InsertByKeyDesc(_, _)
InsertByKeyDesc(e, s) ==
    IF s = <<>> THEN <<e>>
    ELSE IF Head(s).key >= e.key
         THEN <<Head(s)>> \o InsertByKeyDesc(e, Tail(s))
         ELSE <<e>> \o s

RECURSIVE SortDesc(_)
SortDesc(s) ==
    IF s = <<>> THEN <<>>
    ELSE InsertByKeyDesc(s[Len(s)], SortDesc(SubSeq(s, 1, Len(s) - 1)))

\* groups.sort(key=..., reverse=True), keys[i] being the key of groups[i].
SortGroupsDesc(groups, keys) ==
    LET keyed == SortDesc([i \in DOMAIN groups |->
                              [key |-> keys[i], group |-> groups[i]]])
    IN  [i \in DOMAIN keyed |-> keyed[i].group]

FirstSize(g) == st_size(g[1])

group_duplicates(files, sort_by_group, sort_by_size) ==
    LET groups == SelectGroups(files)
    IN  IF sort_by_group
        THEN SortGroupsDesc(groups, [i \in DOMAIN groups |-> Len(groups[i])])
        ELSE IF sort_by_size
        THEN SortGroupsDesc(groups,
                            [i \in DOMAIN groups |-> FirstSize(groups[i])])
        ELSE groups

\* One pass of the while loop of _verify_content: ref is compared with
\* every other file of group; the matches, and the rest.
RECURSIVE Matches(_, _, _)
Matches(ref, group, want) ==
    IF group = <<>> THEN <<>>
    ELSE IF files_are_identical(fs[ref].content, fs[Head(group)].content) = want
         THEN <<Head(group)>> \o Matches(ref, Tail(group), want)
         ELSE Matches(ref, Tail(group), want)

\* The while loop: every pass appends ref and its matches to the one list
\* verified[file_hash], and goes on with the rest.
RECURSIVE VerifyGroup(_, _)
VerifyGroup(group, acc) ==
    IF group = <<>> THEN acc
    ELSE VerifyGroup(Matches(Head(group), Tail(group), FALSE),
                     acc \o <<Head(group)>>
                         \o Matches(Head(group), Tail(group), TRUE))

RECURSIVE verify_content(_)
verify_content(d) ==
    IF d = <<>> THEN <<>>
    ELSE IF Len(Head(d).files) < 2 THEN verify_content(Tail(d))
    ELSE <<[key |-> Head(d).key, files |-> VerifyGroup(Head(d).files, <<>>)]>>
             \o verify_content(Tail(d))

(***************************************************************************)
(* run(), stage by stage.                                                  *)
(***************************************************************************)
\* Lines 52-71: _clear_results, then the normalization of the arguments.
\* A folder that is no directory and a malformed size raise ValueError.
Normalize ==
    /\ pc = "start"
    /\ LET mn == normalize_size(args.min_file_size)
           mx == normalize_size(args.max_file_size)
       IN  IF ~args.folder_is_dir \/ ~mn.ok \/ ~mx.ok
           THEN /\ pc' = "raised"
                /\ io' = [io EXCEPT !.error = "ValueError"]
                /\ self' = self
           ELSE /\ pc' = "scan"
                /\ io' = io
                /\ self' = [exclude_patterns |->
                                normalize_patterns(args.exclude_patterns),
                            include_patterns |->
                                normalize_patterns(args.include_patterns),
                            min_size |-> mn.value,
                            max_size |-> mx.value]
    /\ file_groups' = <<>>
    /\ duplicates' = <<>>
    /\ UNCHANGED <<inputs, ver, faultsLeft, files_by_hash, pending, del>>

\* Lines 73-84: stage 1, and the early return on an empty result.
GroupFilesBySize ==
    /\ pc = "scan"
    /\ \E failed \in FaultSets({p \in Paths : IsRegularFile(p)}) :
          /\ file_groups' = group_files_by_size(failed)
          /\ faultsLeft' = faultsLeft - Cardinality(failed)
          /\ io' = [io EXCEPT !.faulted = @ \cup failed]
    /\ pc' = IF file_groups' = <<>> THEN "returned" ELSE "submit"
    /\ UNCHANGED <<inputs, ver, self, duplicates, files_by_hash, pending, del>>

\* Lines 297-317: one hashing task per file of files_to_hash is submitted.
SubmitHashTasks ==
    /\ pc = "submit"
    /\ pending' = Range(files_to_hash(file_groups))
    /\ files_by_hash' = <<>>
    /\ pc' = "hash"
    /\ UNCHANGED <<inputs, ver, faultsLeft, self, file_groups, duplicates, del, io>>

\* A variant of MergeResult in which a task that raised takes the results
\* merged so far with it.
MergeResultOrReset(d, p, ok) ==
    IF ok THEN DictAppend(d, calc_file_sha256(p), p) ELSE <<>>

\* Lines 320-327: future.result() gives the digest, which is merged, or
\* raises what the task raised, which is printed.
MergeResult(d, p, ok) ==
    IF ok THEN DictAppend(d, calc_file_sha256(p), p) ELSE d

\* Lines 318-327: the main thread takes the next completed future, in any
\* order; a task that raised is reported and its file dropped.
HashComplete(p) ==
    /\ pc = "hash"
    /\ p \in pending
    /\ pending' = pending \ {p}
    /\ \E ok \in Outcomes(p) :
          /\ files_by_hash' = MergeResult(files_by_hash, p, ok)
          /\ IF ok
             THEN /\ faultsLeft' = faultsLeft
                  /\ io' = io
             ELSE /\ faultsLeft' = faultsLeft - 1
                  /\ io' = [io EXCEPT !.faulted = @ \cup {p}]
    /\ UNCHANGED <<inputs, ver, pc, self, file_groups, duplicates, del>>

\* A variant of AllCompleted that does not wait: the stage may return while
\* futures are outstanding.
AllCompletedOrNot(futures) == TRUE

\* Lines 313-328: the loop over as_completed() ends, and the with block of
\* the executor is left, when no future is outstanding.
AllCompleted(futures) == futures = {}

\* The result run() goes on with after _group_duplicates (lines 94-108):
\* file_groups is cleared, and _verify_content is given the cleared dict.
VerifiedGroups(cleared, verify) ==
    IF verify THEN verify_content(cleared) ELSE cleared

\* A variant of AfterGrouping without the return of lines 107-108.
AfterGroupingNoReturn(groups) == "print"

\* Lines 107-108: run() returns when there is no group.
AfterGrouping(groups) == IF groups = <<>> THEN "returned" ELSE "print"

\* Lines 87-108: the pool is joined, stage 2 returns, stage 3 groups.  With
\* sort_by_size the stat() of a group's first file may raise.
GroupDuplicates ==
    /\ pc = "hash"
    /\ AllCompleted(pending)
    /\ IF files_by_hash = <<>>
       THEN /\ file_groups' = <<>>
            /\ pc' = "returned"
            /\ UNCHANGED <<duplicates, faultsLeft, io>>
       ELSE LET groups == group_duplicates(files_by_hash, args.sort_by_group,
                                           args.sort_by_size)
                stats == ~args.sort_by_group /\ args.sort_by_size
                             /\ groups # <<>>
            IN  \E ok \in IF stats /\ faultsLeft > 0
                          THEN {TRUE, FALSE} ELSE {TRUE} :
                   IF ok
                   THEN /\ duplicates' = groups
                        /\ file_groups' =
                               VerifiedGroups(<<>>, args.verify_content)
                        /\ pc' = AfterGrouping(groups)
                        /\ UNCHANGED <<faultsLeft, io>>
                   ELSE /\ file_groups' = files_by_hash
                        /\ pc' = "raised"
                        /\ io' = [io EXCEPT !.error = "OSError"]
                        /\ faultsLeft' = faultsLeft - 1
                        /\ UNCHANGED duplicates
    /\ UNCHANGED <<inputs, ver, self, files_by_hash, pending, del>>

\* Where run() goes after printing and the optional report (lines 117-139).
AfterReport ==
    IF args.interactive THEN "interactive"
    ELSE IF args.delete
         THEN (IF args.dry_run THEN "delete" ELSE "confirm")
         ELSE "returned"

StartDel == [NoDel EXCEPT !.gi = 1, !.mi = 1]

\* Line 111, _print_duplicates: the stat() of each group's first file is
\* not guarded, so a failure leaves run() by the exception.
PrintDuplicates ==
    /\ pc = "print"
    /\ \E ok \in IF faultsLeft > 0 THEN {TRUE, FALSE} ELSE {TRUE} :
          IF ok
          THEN /\ pc' = IF args.output_report_path
                        THEN "report" ELSE AfterReport
               /\ UNCHANGED <<faultsLeft, io>>
          ELSE /\ pc' = "raised"
               /\ io' = [io EXCEPT !.error = "OSError"]
               /\ faultsLeft' = faultsLeft - 1
    /\ UNCHANGED <<inputs, ver, self, file_groups, duplicates, files_by_hash,
                   pending, del>>

\* Lines 114-115, _save_report_to_file: every exception is caught there.
SaveReport ==
    /\ pc = "report"
    /\ io' = [io EXCEPT !.output_report = TRUE]
    /\ pc' = AfterReport
    /\ UNCHANGED <<inputs, ver, faultsLeft, self, file_groups, duplicates,
                   files_by_hash, pending, del>>

(***************************************************************************)
(* Stage 4: deletion.                                                      *)
(***************************************************************************)
LowerChar(c) == CASE c = "Y" -> "y" [] c = "N" -> "n" [] OTHER -> c
Lower(s) == [i \in DOMAIN s |-> LowerChar(s[i])]

\* What the user may answer to the confirmation of a batch deletion.
Answers == { <<"y">>, <<"Y">>, <<" ", "y", " ">>, <<"y", "e", "s">>,
             <<"n">>, <<>> }

\* A variant of IsConfirmed that takes everything but "n" for a yes.
IsConfirmedUnlessNo(confirm) == confirm # <<"n">>

\* Line 132: confirm == "y"
IsConfirmed(confirm) == confirm = <<"y">>

\* Lines 122-137: the confirmation of a batch deletion that is no dry run.
Confirm(answer) ==
    /\ pc = "confirm"
    /\ LET confirm == Lower(Strip(answer))
       IN  IF IsConfirmed(confirm)
           THEN /\ pc' = "delete"
                /\ io' = [io EXCEPT !.confirms = @ + 1,
                                    !.answer = Some(answer)]
           ELSE /\ pc' = "returned"
                /\ io' = [io EXCEPT !.confirms = @ + 1,
                                    !.answer = Some(answer),
                                    !.cancelled = TRUE]
    /\ UNCHANGED <<inputs, ver, faultsLeft, self, file_groups, duplicates,
                   files_by_hash, pending, del>>

\* What one iteration on path can come to: the stat() fails, the unlink()
\* fails, or both succeed.
StepOutcomes(path) ==
    IF path \in io.unlinked THEN {"stat_failed"}
    ELSE {"ok"} \cup (IF faultsLeft > 0
                      THEN {"stat_failed", "unlink_failed"} ELSE {})

Line(tag, path) == [tag |-> tag, path |-> path]

\* A variant of ToDeleteBatch that forgets the slice: the keeper goes too.
ToDeleteBatchAll(group) == group

\* group[1:]: the files _delete_duplicates removes from a group.
ToDeleteBatch(group) == Tail(group)

\* A variant of BatchLocals whose dry run prints the file but appends no
\* line to report_lines.
BatchLocalsUnrecorded(d, path, dry_run, outcome) ==
    IF outcome = "stat_failed"
    THEN [d EXCEPT !.report_lines = Append(@, Line("FAILED", path))]
    ELSE [d EXCEPT
            !.report_lines =
                IF dry_run THEN @
                ELSE IF outcome = "ok" THEN Append(@, Line("Deleted", path))
                ELSE Append(@, Line("FAILED", path)),
            !.deleted_count = @ + 1,
            !.total_deleted_size = @ + st_size(path)]

\* _delete_duplicates, lines 397-416: what one iteration of the inner loop
\* does to the locals, and to the outside.
BatchLocals(d, path, dry_run, outcome) ==
    IF outcome = "stat_failed"
    THEN [d EXCEPT !.report_lines = Append(@, Line("FAILED", path))]
    ELSE [d EXCEPT
            !.report_lines =
                Append(@, IF dry_run THEN Line("would delete", path)
                          ELSE IF outcome = "ok" THEN Line("Deleted", path)
                          ELSE Line("FAILED", path)),
            !.deleted_count = @ + 1,
            !.total_deleted_size = @ + st_size(path)]

BatchEffects(i, path, dry_run, outcome) ==
    IF outcome = "stat_failed" THEN [i EXCEPT !.faulted = @ \cup {path}]
    ELSE IF dry_run THEN i
    ELSE IF outcome = "ok"
    THEN [i EXCEPT !.unlinked = @ \cup {path}, !.attempted = @ \cup {path}]
    ELSE [i EXCEPT !.attempted = @ \cup {path}, !.faulted = @ \cup {path}]

\* A variant of Advance in which a failure ends the inner loop: after a
\* FAILED line the rest of the group is left alone.
AdvanceUnlessFailed(d, todo) ==
    IF d.mi < Len(todo) /\ d.report_lines[Len(d.report_lines)].tag # "FAILED"
    THEN [d EXCEPT !.mi = @ + 1]
    ELSE [d EXCEPT !.gi = @ + 1, !.mi = 1]

\* The position after the mi-th file to delete of group gi, in
\* "for group in self.duplicates: for path in group[1:]".
Advance(d, todo) ==
    IF d.mi < Len(todo)
    THEN [d EXCEPT !.mi = @ + 1]
    ELSE [d EXCEPT !.gi = @ + 1, !.mi = 1]

FaultsAfter(path, outcome) ==
    IF outcome = "ok" \/ path \in io.unlinked
    THEN faultsLeft ELSE faultsLeft - 1

DeleteStep ==
    /\ pc = "delete"
    /\ del.gi <= Len(duplicates)
    /\ LET todo == ToDeleteBatch(duplicates[del.gi])
           path == todo[del.mi]
       IN  \E outcome \in StepOutcomes(path) :
              /\ (outcome = "unlink_failed" => ~args.dry_run)
              /\ del' = Advance(BatchLocals(del, path, args.dry_run, outcome),
                                todo)
              /\ io' = BatchEffects(io, path, args.dry_run, outcome)
              /\ faultsLeft' = FaultsAfter(path, outcome)
    /\ UNCHANGED <<inputs, ver, pc, self, file_groups, duplicates, files_by_hash,
                   pending>>

\* Lines 429-438 and 501-508: the deletion report, when a path was given.
WriteDeleteReport(i, d) ==
    IF args.delete_report_path
    THEN [i EXCEPT !.delete_report = Some(d.report_lines)]
    ELSE i

\* Lines 417-438: the loops are over; the totals, the report, the return.
DeleteFinish ==
    /\ pc = "delete"
    /\ del.gi > Len(duplicates)
    /\ io' = WriteDeleteReport(io, del)
    /\ pc' = "returned"
    /\ UNCHANGED <<inputs, ver, faultsLeft, self, file_groups, duplicates,
                   files_by_hash, pending, del>>

\* int(choice): an optional sign and digits; [ok |-> FALSE] is ValueError.
int(choice) ==
    LET signed == choice # <<>> /\ Head(choice) \in {"+", "-"}
        digits == IF signed THEN Tail(choice) ELSE choice
    IN  IF digits = <<>> \/ \E i \in DOMAIN digits : digits[i] \notin Digits
        THEN [ok |-> FALSE, value |-> 0]
        ELSE [ok |-> TRUE,
              value |-> IF signed /\ Head(choice) = "-"
                        THEN 0 - DigitsValue(digits, 0)
                        ELSE DigitsValue(digits, 0)]

\* What the user may answer to "Select the file to KEEP".
Choices == { <<>>, <<" ">>, <<"1">>, <<"2">>, <<" ", "3">>, <<"+", "2">>,
             <<"0">>, <<"9">>, <<"x">> }

\* A variant of ToDeleteKeep whose second slice starts at keep_index: the
\* kept file is in the list too.
ToDeleteKeepAll(group, keep_index) ==
    SubSeq(group, 1, keep_index) \o SubSeq(group, keep_index + 1, Len(group))

\* group[:keep_index] + group[keep_index + 1:]
ToDeleteKeep(group, keep_index) ==
    SubSeq(group, 1, keep_index) \o SubSeq(group, keep_index + 2, Len(group))

\* A variant of ValidIndex without the range check of line 469.
ValidIndexUnchecked(keep_index, group) == TRUE

\* Line 469: 0 <= keep_index < len(group)
ValidIndex(keep_index, group) == 0 <= keep_index /\ keep_index < Len(group)

\* Lines 448-475: the prompt for group gi.  An empty answer skips the
\* group, an invalid one asks again, a valid one fixes to_delete.
InteractivePrompt(answer) ==
    /\ pc = "interactive"
    /\ del.gi <= Len(duplicates)
    /\ LET group == duplicates[del.gi]
           choice == Strip(answer)
           n == int(choice)
           keep_index == n.value - 1
       IN  IF choice = <<>>
           THEN /\ del' = [del EXCEPT
                             !.report_lines =
                                 Append(@, Line("skipped", del.gi)),
                             !.gi = @ + 1, !.invalid = 0]
                /\ pc' = pc
           ELSE IF n.ok /\ ValidIndex(keep_index, group)
           THEN /\ del' = [del EXCEPT
                             !.to_delete = ToDeleteKeep(group, keep_index),
                             !.mi = 1, !.invalid = 0]
                /\ pc' = "interactive_delete"
           ELSE /\ del.invalid < MaxInvalid
                /\ del' = [del EXCEPT !.invalid = @ + 1]
                /\ pc' = pc
    /\ io' = [io EXCEPT !.prompts = @ + 1,
                        !.answered =
                            IF pc' = pc /\ del'.gi = del.gi THEN @
                            ELSE @ \cup {[group |-> del.gi,
                                          choice |-> Strip(answer)]}]
    /\ UNCHANGED <<inputs, ver, faultsLeft, self, file_groups, duplicates,
                   files_by_hash, pending>>

\* Lines 477-493: one iteration of "for path in to_delete".
InteractiveLocals(d, path, outcome) ==
    IF outcome = "ok"
    THEN [d EXCEPT !.report_lines = Append(@, Line("Deleted", path)),
                   !.deleted_count = @ + 1,
                   !.total_deleted_size = @ + st_size(path)]
    ELSE [d EXCEPT !.report_lines = Append(@, Line("FAILED", path))]

InteractiveEffects(i, path, outcome) ==
    IF outcome = "stat_failed" THEN [i EXCEPT !.faulted = @ \cup {path}]
    ELSE IF outcome = "ok"
    THEN [i EXCEPT !.unlinked = @ \cup {path}, !.attempted = @ \cup {path}]
    ELSE [i EXCEPT !.attempted = @ \cup {path}, !.faulted = @ \cup {path}]

InteractiveDeleteStep ==
    /\ pc = "interactive_delete"
    /\ LET path == del.to_delete[del.mi]
           last == del.mi = Len(del.to_delete)
       IN  \E outcome \in StepOutcomes(path) :
              /\ del' = LET d == InteractiveLocals(del, path, outcome)
                        IN  IF last
                            THEN [d EXCEPT !.gi = @ + 1, !.mi = 1,
                                           !.to_delete = <<>>]
                            ELSE [d EXCEPT !.mi = @ + 1]
              /\ io' = InteractiveEffects(io, path, outcome)
              /\ faultsLeft' = FaultsAfter(path, outcome)
              /\ pc' = IF last THEN "interactive" ELSE pc
    /\ UNCHANGED <<inputs, ver, self, file_groups, duplicates, files_by_hash,
                   pending>>

\* Lines 495-508: every group was handled; the totals, the report.
InteractiveFinish ==
    /\ pc = "interactive"
    /\ del.gi > Len(duplicates)
    /\ io' = WriteDeleteReport(io, del)
    /\ pc' = "returned"
    /\ UNCHANGED <<inputs, ver, faultsLeft, self, file_groups, duplicates,
                   files_by_hash, pending, del>>

(***************************************************************************)
(* _verify_content, pass by pass.  run() only ever calls it on the dict it *)
(* has just cleared (lines 99-105), where its loops have nothing to do;    *)
(* the actions below are a call of the method on a digest dict, as the     *)
(* hashing stage returns it.                                               *)
(***************************************************************************)
\* Lines 516-520: the comparisons announced in the progress line.
RECURSIVE TotalComparisons(_)
TotalComparisons(d) ==
    IF d = <<>> THEN 0
    ELSE (IF Len(Head(d).files) > 1
          THEN (Len(Head(d).files) * (Len(Head(d).files) - 1)) \div 2
          ELSE 0) + TotalComparisons(Tail(d))

\* A variant of PopFirst that reads the reference and leaves it in the
\* list.
PopNone(group) == group

\* Line 529: what group.pop(0) leaves in the list.
PopFirst(group) == Tail(group)

\* Lines 533-541: the comparison of ref with other matches when it does not
\* raise and files_are_identical returns True.
IsMatch(ref, other, raising) ==
    /\ other \notin raising
    /\ files_are_identical(fs[ref].content, fs[other].content)

\* Lines 532-541: the files of others whose comparison with ref matches
\* (want = TRUE), and the others (want = FALSE), in the order of the list.
RECURSIVE Compared(_, _, _, _)
Compared(ref, others, raising, want) ==
    IF others = <<>> THEN <<>>
    ELSE IF IsMatch(ref, Head(others), raising) = want
         THEN <<Head(others)>> \o Compared(ref, Tail(others), raising, want)
         ELSE Compared(ref, Tail(others), raising, want)

\* verified[file_hash].append(p) for every p of files.
RECURSIVE AppendAll(_, _, _)
AppendAll(d, k, files) ==
    IF files = <<>> THEN d
    ELSE AppendAll(DictAppend(d, k, Head(files)), k, Tail(files))

\* Lines 525-527: the for loop takes the next item; a list of fewer than
\* two files is passed over.
VerifyNextBucket ==
    /\ pc = "verify_for"
    /\ ver.bi <= Len(file_groups)
    /\ LET group == file_groups[ver.bi].files
       IN  IF Len(group) < 2
           THEN /\ ver' = [ver EXCEPT !.bi = @ + 1]
                /\ pc' = pc
           ELSE /\ ver' = [ver EXCEPT !.group = group, !.k = Len(group),
                                      !.compared = 0]
                /\ pc' = "verify_while"
    /\ UNCHANGED <<inputs, faultsLeft, self, file_groups, duplicates,
                   files_by_hash, pending, del, io>>

\* Lines 528-546: one pass of the while loop.  The comparisons of the files
\* in raising raise.  In the first pass of a bucket, group is the list of
\* the dict itself, which loses its first file to pop(0).
VerifyPass ==
    /\ pc = "verify_while"
    /\ ver.group # <<>>
    /\ LET ref == Head(ver.group)
           others == PopFirst(ver.group)
           key == file_groups[ver.bi].key
       IN  \E raising \in FaultSets(Range(others)) :
              LET matched == Compared(ref, others, raising, TRUE)
                  remaining == Compared(ref, others, raising, FALSE)
              IN  /\ ver' = [ver EXCEPT
                               !.verified =
                                   AppendAll(@, key, <<ref>> \o matched),
                               !.completed = @ + Len(others),
                               !.compared = @ + Len(others),
                               !.group = remaining,
                               !.bi = IF remaining = <<>> THEN @ + 1 ELSE @]
                  /\ pc' = IF remaining = <<>> THEN "verify_for" ELSE pc
                  /\ faultsLeft' = faultsLeft - Cardinality(raising)
                  /\ file_groups' =
                         IF Len(ver.group) = ver.k
                         THEN [file_groups EXCEPT ![ver.bi].files = others]
                         ELSE file_groups
    /\ UNCHANGED <<inputs, self, duplicates, files_by_hash, pending, del, io>>

\* Lines 547-548: the for loop is over, verified is returned.
VerifyReturn ==
    /\ pc = "verify_for"
    /\ ver.bi > Len(file_groups)
    /\ pc' = "verified"
    /\ UNCHANGED <<inputs, ver, faultsLeft, self, file_groups, duplicates,
                   files_by_hash, pending, del, io>>

Next ==
    \/ Normalize
    \/ GroupFilesBySize
    \/ SubmitHashTasks
    \/ \E p \in Paths : HashComplete(p)
    \/ GroupDuplicates
    \/ PrintDuplicates
    \/ SaveReport
    \/ \E answer \in Answers : Confirm(answer)
    \/ DeleteStep
    \/ DeleteFinish
    \/ \E answer \in Choices : InteractivePrompt(answer)
    \/ InteractiveDeleteStep
    \/ InteractiveFinish

(***************************************************************************)
(* The runs that are checked.  Every run starts at the call of run() on a  *)
(* fresh DuplicateFinder; the arguments, the files and the digest function *)
(* are drawn from the families below.                                      *)
(***************************************************************************)
BaseArgs ==
    [folder_is_dir |-> TRUE,
     exclude_patterns |-> None, include_patterns |-> None,
     min_file_size |-> None, max_file_size |-> None,
     sort_by_group |-> FALSE, sort_by_size |-> FALSE,
     output_report_path |-> FALSE,
     delete |-> FALSE, dry_run |-> FALSE, interactive |-> FALSE,
     delete_report_path |-> FALSE,
     verify_content |-> TRUE]

PatternInputs ==
    { None,
      Some(<<>>),
      Some(<< <<"*", ".", "b">> >>),
      Some(<< <<" ">>, <<" ", "*", "/", "a", "/", "*">> >>) }

SizeInputs == { None, Some(<<"0">>), Some(<<"1">>), Some(<<"2">>) }

BadSizeInputs ==
    { Some(<<"x">>), Some(<<".">>), Some(<<"1", "K">>), Some(<<>>),
      Some(<<"-", "1">>), Some(<<"1", "K", "i">>) }

\* The filesystems.  In all but SortFS, /r/c is a directory; the other
\* four paths are: anything (AllFS), regular files of two sizes (PlainFS),
\* two regular files and two symlinks (SparseFS).  SortFS: five regular
\* files of two sizes.
WithDirectory(f) == [p \in Paths |-> IF p \in DOMAIN f THEN f[p] ELSE Directory]

AllFS == {WithDirectory(f) : f \in [1..4 -> FileStates]}
PlainFS ==
    {WithDirectory(f) : f \in [1..4 -> [kind : {"file"},
                                        content : {<<0>>, <<0, 0>>}]]}
SparseFS ==
    {f \in AllFS : /\ f[1].kind = "file" /\ f[2].kind = "file"
                   /\ f[3].kind = "symlink" /\ f[4].kind = "symlink"}
SortFS == [Paths -> [kind : {"file"}, content : {<<0>>, <<0, 0>>}]]

InjectiveDigest ==
    {d \in DigestAssignments : \A c1, c2 \in Contents : d[c1] = d[c2] => c1 = c2}

\* Detection: any files, any digest function, with and without verification.
DetectArgs ==
    {[BaseArgs EXCEPT !.verify_content = v, !.output_report_path = o] :
        v \in BOOLEAN, o \in BOOLEAN}

\* Filters: every combination of patterns and size bounds.
FilterArgs ==
    {[BaseArgs EXCEPT !.exclude_patterns = e, !.include_patterns = i,
                      !.min_file_size = mn, !.max_file_size = mx] :
        e \in PatternInputs, i \in PatternInputs,
        mn \in SizeInputs, mx \in SizeInputs}

\* Deletion: every combination of the deletion flags and the deletion
\* report, with and without the sort that stats the files.
DeleteArgs ==
    {[BaseArgs EXCEPT !.delete = d, !.dry_run = y, !.interactive = i,
                      !.delete_report_path = r, !.sort_by_size = z] :
        d \in BOOLEAN, y \in BOOLEAN, i \in BOOLEAN, r \in BOOLEAN,
        z \in BOOLEAN}

\* Deletion with failing calls.  Once interactive is set run() reads
\* neither delete nor dry_run (line 119 comes first), so the interactive
\* runs with another setting of the two flags repeat these step by step.
FaultyDeleteArgs ==
    {a \in DeleteArgs : a.interactive => (a.delete /\ ~a.dry_run)}

\* Sorting: every combination of the two sort flags.
SortArgs ==
    {[BaseArgs EXCEPT !.sort_by_group = g, !.sort_by_size = z] :
        g \in BOOLEAN, z \in BOOLEAN}

\* Configuration errors.
ConfigArgs ==
    {[BaseArgs EXCEPT !.folder_is_dir = f, !.min_file_size = mn,
                      !.max_file_size = mx] :
        f \in BOOLEAN, mn \in SizeInputs \cup BadSizeInputs,
        mx \in {None} \cup BadSizeInputs}

InitWith(A, F, D, K) ==
    /\ args \in A
    /\ fs \in F
    /\ digest \in D
    /\ faultsLeft \in K
    /\ pc = "start"
    /\ self = NoSelf
    /\ file_groups = <<>>
    /\ duplicates = <<>>
    /\ files_by_hash = <<>>
    /\ pending = {}
    /\ del = StartDel
    /\ io = NoIO
    /\ ver = NoVer

Init ==
    \/ InitWith(DetectArgs, AllFS, DigestAssignments, {0})
    \/ InitWith(FilterArgs, PlainFS, InjectiveDigest, {0})
    \/ InitWith(DeleteArgs, PlainFS, InjectiveDigest, {0})
    \/ InitWith(FaultyDeleteArgs, PlainFS, InjectiveDigest, 1..MaxFaults)
    \/ InitWith(DeleteArgs, SparseFS, InjectiveDigest, {0})
    \/ InitWith(SortArgs, SortFS, InjectiveDigest, {0})
    \/ InitWith(ConfigArgs, PlainFS, InjectiveDigest, {0})

Spec == Init /\ [][Next]_vars

(***************************************************************************)
(* The calls of _verify_content that are checked: on the digest dict the   *)
(* hashing stage makes of four files of any content (of those that share   *)
(* their size with another), under any digest function, so that files of   *)
(* different content may share a bucket; the tasks completed in the order  *)
(* of submission or in the reverse order.                                  *)
(***************************************************************************)
VerifyNext ==
    \/ VerifyNextBucket
    \/ VerifyPass
    \/ VerifyReturn

VerifyFS ==
    {WithDirectory(f) : f \in [1..4 -> [kind : {"file"}, content : Contents]]}

RECURSIVE Reverse(_)
Reverse(s) == IF s = <<>> THEN <<>> ELSE Append(Reverse(Tail(s)), Head(s))

\* The dict _group_files_by_hash returns when the tasks of files complete
\* in the order of the list.
RECURSIVE HashedInOrder(_, _)
HashedInOrder(files, d) ==
    IF files = <<>> THEN d
    ELSE HashedInOrder(Tail(files),
                       DictAppend(d, calc_file_sha256(Head(files)),
                                  Head(files)))

VerifyInit ==
    /\ args = BaseArgs
    /\ fs \in VerifyFS
    /\ digest \in DigestAssignments
    /\ faultsLeft \in 0..MaxFaults
    /\ pc = "verify_for"
    /\ self = NoSelf
    /\ \E submitted \in {files_to_hash(group_files_by_size({}))} :
          file_groups \in {HashedInOrder(submitted, <<>>),
                           HashedInOrder(Reverse(submitted), <<>>)}
    /\ duplicates = <<>>
    /\ files_by_hash = <<>>
    /\ pending = {}
    /\ del = StartDel
    /\ io = NoIO
    /\ ver = [NoVer EXCEPT !.bi = 1,
                           !.total_comparisons = TotalComparisons(file_groups)]

VerifySpec == VerifyInit /\ [][VerifyNext]_vars

\* The method is one sequential loop: it goes on as long as it has a step
\* to take.
VerifyLiveSpec == VerifySpec /\ WF_vars(VerifyNext)
(***************************************************************************)
(* What the claims speak of.                                               *)
(***************************************************************************)
\* The lists of files the run holds: the buckets of self.file_groups and
\* of the digest dict being filled, and the groups of self.duplicates.
Buckets ==
    {file_groups[i].files : i \in DOMAIN file_groups}
        \cup {files_by_hash[i].files : i \in DOMAIN files_by_hash}
HashBuckets == {files_by_hash[i].files : i \in DOMAIN files_by_hash}
Groups == {duplicates[i] : i \in DOMAIN duplicates}

\* Every path the run holds as a candidate.
Listed ==
    DictPaths(file_groups) \cup DictPaths(files_by_hash) \cup pending
        \cup GroupPaths(duplicates)

Size(p) == Len(fs[p].content)

\* The filters, as the interface states them, on the normalized settings.
WithinBounds(p) ==
    /\ (~self.min_size.none => Size(p) >= self.min_size.val)
    /\ (~self.max_size.none => Size(p) <= self.max_size.val)

MatchesAny(p, patterns) ==
    /\ ~patterns.none
    /\ \E i \in DOMAIN patterns.val : fnmatch(as_posix(p), patterns.val[i])

Included(p) ==
    \/ self.include_patterns.none
    \/ self.include_patterns.val = <<>>
    \/ MatchesAny(p, self.include_patterns)

Excluded(p) == MatchesAny(p, self.exclude_patterns)

\* A regular file that passes the filters and on which no call failed.
Eligible(p) ==
    /\ fs[p].kind = "file"
    /\ p \notin io.faulted
    /\ WithinBounds(p) /\ Included(p) /\ ~Excluded(p)

GroupsOf(p) == {i \in DOMAIN duplicates : p \in Range(duplicates[i])}

Batch == args.delete /\ ~args.interactive /\ ~args.dry_run

(***************************************************************************)
(* C1.  When run() returns, any two eligible files (regular, readable,     *)
(* passing the filters) with byte-identical content are in one and the     *)
(* same group, and in no other group.                                      *)
(***************************************************************************)
C1_IdenticalFilesOneGroup ==
    pc = "returned" =>
        \A p, q \in Paths :
            (p # q /\ Eligible(p) /\ Eligible(q)
                 /\ fs[p].content = fs[q].content)
            => /\ Cardinality(GroupsOf(p)) = 1
               /\ GroupsOf(q) = GroupsOf(p)

\* /r/a.b and /r/a/b, of different depth and name, hold the same bytes and
\* were returned in one group.
C1_Witness ==
    /\ pc = "returned"
    /\ Eligible(1) /\ Eligible(2)
    /\ fs[1].content = fs[2].content
    /\ GroupsOf(1) # {} /\ GroupsOf(1) = GroupsOf(2)

(***************************************************************************)
(* C2.  With verify_content set, two files of one group never differ in    *)
(* content (a digest collision never survives into self.duplicates).       *)
(***************************************************************************)
C2_VerifiedGroupsShareContent ==
    args.verify_content =>
        \A g \in Groups : \A p, q \in Range(g) :
            fs[p].content = fs[q].content

(***************************************************************************)
(* C3.  As claimed: two files of different sizes are never in the same     *)
(* digest bucket or group, whatever the digest function.                   *)
(***************************************************************************)
C3_DistinctSizesNeverTogether ==
    \A l \in HashBuckets \cup Groups : \A p, q \in Range(l) :
        Size(p) = Size(q)

\* C3, amended: two files of different sizes are in the same digest bucket
\* or group only when their contents have the same digest.
C3_DistinctSizesOnlyOnCollision ==
    \A l \in HashBuckets \cup Groups : \A p, q \in Range(l) :
        Size(p) # Size(q) => digest[fs[p].content] = digest[fs[q].content]

\* Files of two sizes were hashed and came out as two groups, one per size.
C3_Witness ==
    /\ pc = "returned"
    /\ Len(duplicates) = 2
    /\ Size(duplicates[1][1]) # Size(duplicates[2][1])
    /\ \A g \in Groups : \A p, q \in Range(g) : Size(p) = Size(q)

(***************************************************************************)
(* C4.  With dry_run set the run unlinks no file, whatever delete and      *)
(* interactive are and whatever the user answers.                          *)
(***************************************************************************)
C4_DryRunNeverUnlinks ==
    args.dry_run => io.unlinked = {} /\ io.attempted = {}

(***************************************************************************)
(* C5.  As claimed: a confirmed batch deletion that has run to its end has *)
(* called unlink() on every member of every group but the first.           *)
(***************************************************************************)
NonKeepers == UNION {Range(Tail(g)) : g \in Groups}
Keepers == {g[1] : g \in Groups}

BatchDone == Batch /\ pc = "returned" /\ ~io.cancelled /\ duplicates # <<>>

C5_EveryNonKeeperAttempted ==
    BatchDone => io.attempted = NonKeepers

\* C5, amended: it has called unlink() on every member but the first whose
\* stat() succeeded, on no keeper and on no other file; and when no stat()
\* and no unlink() failed, exactly the non-keepers are gone.
C5_BatchDeletesAllButKeeper ==
    /\ Batch => io.attempted \subseteq NonKeepers
    /\ Batch => io.attempted \cap Keepers = {}
    /\ BatchDone =>
          /\ \A p \in NonKeepers : p \in io.attempted \/ p \in io.faulted
          /\ io.unlinked = io.attempted \ io.faulted
          /\ (io.faulted = {} => io.unlinked = NonKeepers)

\* A group of three was deleted down to its keeper.
C5_Witness ==
    /\ BatchDone
    /\ \E g \in Groups : Len(g) >= 3 /\ Range(Tail(g)) \subseteq io.unlinked
    /\ io.unlinked = NonKeepers

(***************************************************************************)
(* C6.  In batch mode without dry-run the confirmation is asked once, at   *)
(* most; unlink() and the deletion report come only after the answer y;    *)
(* after any other answer the run has returned, cancelled, with no file    *)
(* removed and no deletion report.                                         *)
(***************************************************************************)
Affirmative == { <<"y">>, <<"Y">>, <<" ", "y", " ">> }

C7_ExcludedNeverListed ==
    \A p \in Paths : Excluded(p) => p \notin Listed

\* /r/a.b is excluded, /r/a/b holds the same bytes and is not: the run
\* returned no group.
C7_Witness ==
    /\ pc = "returned"
    /\ Excluded(1) /\ ~Excluded(2) /\ Eligible(2)
    /\ fs[1].content = fs[2].content
    /\ duplicates = <<>>

(***************************************************************************)
(* C8.  No file below the minimum size or above the maximum size is in any *)
(* size bucket, digest bucket or group.                                    *)
(***************************************************************************)
C8_OutOfBoundsNeverListed ==
    \A p \in Listed : WithinBounds(p)

(***************************************************************************)
(* C9.  A symlink is in no size bucket, digest bucket or group, and is     *)
(* never submitted for hashing.                                            *)
(***************************************************************************)
C9_SymlinkNeverListed ==
    \A p \in Paths : fs[p].kind = "symlink" => p \notin Listed

\* A regular file and a symlink to a file of the same bytes, and no other
\* file like them: the run returned no group.
C9_Witness ==
    /\ pc = "returned"
    /\ \E p, q \in Paths :
          /\ fs[p].kind = "file" /\ fs[q].kind = "symlink"
          /\ fs[p].content = fs[q].content
          /\ Eligible(p)
    /\ duplicates = <<>>

(***************************************************************************)
(* C10.  Once the arguments are normalized, run() is left by return only:  *)
(* the one exception that leaves it is the configuration error.            *)
(***************************************************************************)
C10_OnlyConfigurationErrorsAbort ==
    pc = "raised" => io.error = "ValueError"

(***************************************************************************)
(* C11.  When the folder is no directory, or a size string holds no        *)
(* number, run() raises ValueError out of the normalization: it has        *)
(* scanned, hashed and deleted nothing and written no report.              *)
(***************************************************************************)
\* The size string does not start with a number.
NoNumber(size) ==
    /\ ~size.none
    /\ LET t == Strip(size.val)
       IN  ~\/ (t # <<>> /\ t[1] \in Digits)
            \/ (Len(t) >= 2 /\ t[1] = "." /\ t[2] \in Digits)

BadConfiguration ==
    \/ ~args.folder_is_dir
    \/ NoNumber(args.min_file_size)
    \/ NoNumber(args.max_file_size)

NothingDone ==
    /\ file_groups = <<>> /\ files_by_hash = <<>> /\ pending = {}
    /\ duplicates = <<>>
    /\ io = [NoIO EXCEPT !.error = io.error]
    /\ del = StartDel

C11_BadConfigurationRaisesFirst ==
    /\ BadConfiguration =>
          /\ pc \in {"start", "raised"}
          /\ pc = "raised" => io.error = "ValueError"
    /\ (pc = "raised" /\ io.error = "ValueError") => NothingDone

\* The folder is a directory, but the maximum size is "-1": the run raised.
C11_Witness ==
    /\ pc = "raised" /\ io.error = "ValueError"
    /\ args.folder_is_dir
    /\ args.max_file_size = Some(<<"-", "1">>)
    /\ ~NoNumber(args.min_file_size)
(***************************************************************************)
(* C12.  With sort_by_group and sort_by_size both set, run() raises out of *)
(* the normalization and never goes on to the scan.                        *)
(***************************************************************************)
C12_ConflictingSortFlagsRaise ==
    (args.sort_by_group /\ args.sort_by_size) => pc \in {"start", "raised"}
(***************************************************************************)
(* C13.  Interactive deletion, for every group: after an empty answer no   *)
(* member of the group is touched, a skip notice is recorded and the next  *)
(* group is asked about; an invalid answer never ends the prompt of a      *)
(* group, and after it the same group is asked about again, untouched; a   *)
(* member of a group is only touched once a valid keep index was given     *)
(* for that group.                                                         *)
(***************************************************************************)
\* The number a (stripped) answer stands for; -1 when it is no number.
Chosen(choice) ==
    CASE choice = <<"0">> -> 0
      [] choice = <<"1">> -> 1
      [] choice = <<"2">> -> 2
      [] choice = <<"+", "2">> -> 2
      [] choice = <<"3">> -> 3
      [] choice = <<"9">> -> 9
      [] OTHER -> 0 - 1

IsSkip(h) == h.choice = <<>>
IsKeep(h) == Chosen(h.choice) \in 1..Len(duplicates[h.group])

\* A member of group g was unlinked, or a stat() or unlink() on it was tried
\* and failed.
Touched(g) ==
    Range(duplicates[g]) \cap (io.attempted \cup io.unlinked \cup io.faulted)
        # {}

SkipNoted(g) ==
    \E i \in DOMAIN del.report_lines :
        del.report_lines[i] = Line("skipped", g)

C13_SkipAndInvalidAnswersRemoveNothing ==
    args.interactive =>
        /\ \A h \in io.answered :
              /\ IsSkip(h) \/ IsKeep(h)
              /\ IsSkip(h) =>
                    /\ ~Touched(h.group) /\ SkipNoted(h.group)
                    /\ del.gi > h.group
        /\ del.invalid > 0 =>
              /\ pc = "interactive" /\ del.gi \in DOMAIN duplicates
              /\ ~Touched(del.gi)
              /\ \A h \in io.answered : h.group < del.gi
        /\ \A g \in DOMAIN duplicates :
              Touched(g) =>
                  \E h \in io.answered : h.group = g /\ IsKeep(h)

\* Group 1 was asked about twice: the first answer was refused, then the
\* empty answer skipped it; the run returned with the group whole.
C13_Witness ==
    /\ args.interactive /\ pc = "returned"
    /\ io.prompts = 2
    /\ io.answered = {[group |-> 1, choice |-> <<>>]}
    /\ Len(duplicates) = 1
    /\ ~Touched(1) /\ SkipNoted(1)
(***************************************************************************)
(* C14.  As claimed: once a group was answered with a valid index k and    *)
(* its deletion has ended, unlink() was called on every member of the      *)
(* group but the k-th, on no kept member and on no file outside the        *)
(* answered groups.                                                        *)
(***************************************************************************)
KeepAnswers == {h \in io.answered : IsKeep(h)}
Kept(h) == duplicates[h.group][Chosen(h.choice)]
Others(h) == Range(duplicates[h.group]) \ {Kept(h)}
GroupDone(h) == del.gi > h.group

C14_KeepAnswerUnlinksAllOthers ==
    args.interactive =>
        /\ io.attempted \subseteq UNION {Others(h) : h \in KeepAnswers}
        /\ \A h \in KeepAnswers :
              /\ Kept(h) \notin io.attempted
              /\ GroupDone(h) => Others(h) \subseteq io.attempted

\* C14, amended: unlink() was called on every member but the k-th whose
\* stat() succeeded, on no kept member and on no file outside the answered
\* groups; and when no stat() and no unlink() on the group failed, the k-th
\* member is the only one of the group that is left.
C14_KeepAnswerUnlinksOthers ==
    args.interactive =>
        /\ io.attempted \subseteq UNION {Others(h) : h \in KeepAnswers}
        /\ \A h \in KeepAnswers :
              /\ Kept(h) \notin io.attempted \cup io.faulted
              /\ GroupDone(h) =>
                    /\ Others(h) \subseteq io.attempted \cup io.faulted
                    /\ Others(h) \cap io.unlinked
                           = (Others(h) \cap io.attempted) \ io.faulted
                    /\ Others(h) \cap io.faulted = {} =>
                           Range(duplicates[h.group]) \ io.unlinked
                               = {Kept(h)}

\* Of a group of three the second was kept: the first and the third are
\* gone.
C14_Witness ==
    /\ args.interactive /\ pc = "returned"
    /\ \E h \in io.answered :
          /\ h.choice = <<"2">>
          /\ Len(duplicates[h.group]) = 3
          /\ io.unlinked = {duplicates[h.group][1], duplicates[h.group][3]}
(***************************************************************************)
(* C15.  With interactive set and delete unset, no prompt to choose a      *)
(* keeper is shown and no file is removed.                                 *)
(***************************************************************************)
C15_InteractiveNeedsDelete ==
    (args.interactive /\ ~args.delete) =>
        /\ io.prompts = 0
        /\ io.unlinked = {} /\ io.attempted = {}

(***************************************************************************)
(* C16.  A run that has no duplicate group never asks (neither for the     *)
(* confirmation nor for a keeper), never enters a deletion, removes        *)
(* nothing and writes no deletion report, whatever the flags.              *)
(***************************************************************************)
C16_NoGroupsNoPromptNoDeletion ==
    duplicates = <<>> =>
        /\ io.prompts = 0 /\ io.confirms = 0
        /\ io.unlinked = {} /\ io.attempted = {}
        /\ io.delete_report.none
        /\ pc \notin {"confirm", "delete", "interactive", "interactive_delete"}

\* Two files of one size and different bytes were hashed, delete and
\* interactive were set, and the run returned without a group or a prompt.
C16_Witness ==
    /\ pc = "returned" /\ duplicates = <<>>
    /\ args.delete /\ args.interactive /\ ~args.dry_run
    /\ fs[1].kind = "file" /\ fs[2].kind = "file"
    /\ st_size(1) = st_size(2) /\ fs[1].content # fs[2].content
    /\ io.prompts = 0 /\ io.confirms = 0
(***************************************************************************)
(* C17.  As claimed: a batch dry run that has ended has recorded exactly   *)
(* one "[would delete]" line for every member of every group but the       *)
(* first, none for a first member, and no more such lines than the sum     *)
(* over the groups of (group size - 1).                                    *)
(***************************************************************************)
DryBatchDone ==
    /\ args.delete /\ args.dry_run /\ ~args.interactive
    /\ pc = "returned" /\ duplicates # <<>>

LinesOf(tag, p) ==
    {i \in DOMAIN del.report_lines : del.report_lines[i] = Line(tag, p)}

LinesTagged(tag) ==
    {i \in DOMAIN del.report_lines : del.report_lines[i].tag = tag}

RECURSIVE SumNonKeepers(_)
SumNonKeepers(groups) ==
    IF groups = <<>> THEN 0
    ELSE Len(Head(groups)) - 1 + SumNonKeepers(Tail(groups))

C17_OneWouldDeleteLinePerNonKeeper ==
    DryBatchDone =>
        /\ \A p \in NonKeepers : Cardinality(LinesOf("would delete", p)) = 1
        /\ \A p \in Keepers : LinesOf("would delete", p) = {}
        /\ Cardinality(LinesTagged("would delete")) = SumNonKeepers(duplicates)

\* C17, amended: one "[would delete]" line for every member but the first
\* whose stat() succeeded, one FAILED line instead for a member whose stat()
\* failed, no line for a first member; the lines are as many as the sum
\* over the groups of (group size - 1), and all are "[would delete]" lines
\* when no stat() failed.
C17_OneLinePerNonKeeper ==
    DryBatchDone =>
        /\ \A p \in NonKeepers :
              IF p \in io.faulted
              THEN /\ Cardinality(LinesOf("FAILED", p)) = 1
                   /\ LinesOf("would delete", p) = {}
              ELSE /\ Cardinality(LinesOf("would delete", p)) = 1
                   /\ LinesOf("FAILED", p) = {}
        /\ \A p \in Keepers :
              LinesOf("would delete", p) \cup LinesOf("FAILED", p) = {}
        /\ Len(del.report_lines) = SumNonKeepers(duplicates)
        /\ LinesTagged("Deleted") = {}
        /\ io.faulted = {} =>
              Cardinality(LinesTagged("would delete"))
                  = SumNonKeepers(duplicates)

\* A dry run over two groups of two files: two "[would delete]" lines, and
\* every file still there.
C17_Witness ==
    /\ DryBatchDone
    /\ Len(duplicates) = 2
    /\ Cardinality(LinesTagged("would delete")) = 2
    /\ io.unlinked = {}
(***************************************************************************)
(* C18.  As claimed: every group of self.duplicates has at least 2         *)
(* members, no path twice, and its members in ascending lexicographic      *)
(* order of their paths (the order of the path strings).                   *)
(***************************************************************************)
NoRepeats(g) == \A i, j \in DOMAIN g : i # j => g[i] # g[j]

C18_GroupsInStringOrder ==
    \A g \in Groups :
        /\ Len(g) >= 2 /\ NoRepeats(g)
        /\ \A i, j \in DOMAIN g :
              i < j => StrLess(as_posix(g[i]), as_posix(g[j]))

\* C18, amended: the members are in ascending order of their paths compared
\* part by part (the first part that differs decides, each part compared
\* as a string; a path comes before the paths it is a prefix of), and the
\* first member is the least of the group in that order.
PartsBefore(a, b) ==
    \E k \in 1..Len(b) :
        /\ \A i \in 1..(k - 1) : i <= Len(a) /\ a[i] = b[i]
        /\ \/ k = Len(a) + 1
           \/ (k <= Len(a) /\ StrLess(a[k], b[k]))

C18_GroupsInPartsOrder ==
    \A g \in Groups :
        /\ Len(g) >= 2 /\ NoRepeats(g)
        /\ \A i \in DOMAIN g : \A j \in (i + 1)..Len(g) :
              PartsBefore(PathParts[g[i]], PathParts[g[j]])
        /\ \A p \in Range(g) \ {g[1]} :
              ~PartsBefore(PathParts[p], PathParts[g[1]])

\* /r/a/b and /r/a.b are in one group, /r/a/b first: "a" is before "a.b",
\* while the string "/r/a.b" is before "/r/a/b".
C18_Witness ==
    /\ pc = "returned"
    /\ \E g \in Groups : \E i, j \in DOMAIN g :
          /\ i < j /\ g[i] = 2 /\ g[j] = 1
          /\ StrLess(as_posix(1), as_posix(2))
(***************************************************************************)
(* C19.  When no filesystem call fails, the groups of self.duplicates are  *)
(* a function of the files, the digests and the settings alone: their      *)
(* member sets are the digest classes of two or more among the files the   *)
(* scan submits for hashing, and the order of the members of a group is    *)
(* the order of the paths, in whatever order the hashing tasks complete    *)
(* (the worker count only bears on that order).                            *)
(***************************************************************************)
\* The files the sequential scan keeps, and those of them it submits for
\* hashing: the ones that share their size with another.
Scanned ==
    {p \in Paths :
        /\ IsRegularFile(p)
        /\ PassesSize(st_size(p), self.min_size, self.max_size)
        /\ PassesInclude(p, self.include_patterns)
        /\ PassesExclude(p, self.exclude_patterns)}

ToHash(scanned) ==
    {p \in scanned : \E q \in scanned \ {p} : st_size(q) = st_size(p)}

DigestClass(p, hashed) ==
    {q \in hashed : digest[fs[q].content] = digest[fs[p].content]}

ExpectedGroups(hashed) ==
    {c \in {DigestClass(p, hashed) : p \in hashed} : Cardinality(c) >= 2}

Grouped ==
    pc \in {"print", "report", "confirm", "delete", "interactive",
            "interactive_delete", "returned"}

C19_GroupsIndependentOfCompletionOrder ==
    (Grouped /\ io.faulted = {}) =>
        LET expected == ExpectedGroups(ToHash(Scanned))
        IN  /\ {Range(g) : g \in Groups} = expected
            /\ Len(duplicates) = Cardinality(expected)
            /\ \A g \in Groups :
                  /\ Len(g) = Cardinality(Range(g))
                  /\ \A i, j \in DOMAIN g : i < j => PathLess(g[i], g[j])

\* The hashing tasks of a group completed in another order than the order
\* of the paths, and the group came out in the order of the paths.
C19_Witness ==
    /\ pc = "returned" /\ io.faulted = {}
    /\ Len(duplicates) = 2
    /\ \E i \in DOMAIN files_by_hash :
          LET files == files_by_hash[i].files
          IN  Len(files) >= 2 /\ PathLess(files[2], files[1])
    /\ {Range(g) : g \in Groups} = ExpectedGroups(ToHash(Scanned))
(***************************************************************************)
(* C20.  The groups of self.duplicates are those of the digest buckets of  *)
(* two or more files, whatever the sort flags; when the sort by group is   *)
(* selected they are in non-increasing member count; when the sort by      *)
(* size is the one selected (_group_duplicates takes it when sort_by_group *)
(* is not set), in non-increasing file size, the files of a group being    *)
(* all of one size; with neither, in the order of their buckets in the     *)
(* digest dict.                                                            *)
(***************************************************************************)
GroupBuckets ==
    {i \in DOMAIN files_by_hash : Len(files_by_hash[i].files) >= 2}

\* The place in the digest dict of the bucket group g was made from.
BucketOf(g) ==
    CHOOSE i \in GroupBuckets : Range(files_by_hash[i].files) = Range(g)

C20_GroupsOrderedBySortMode ==
    Grouped =>
        /\ {Range(g) : g \in Groups}
               = {Range(files_by_hash[i].files) : i \in GroupBuckets}
        /\ Len(duplicates) = Cardinality(GroupBuckets)
        /\ args.sort_by_group =>
              \A i \in DOMAIN duplicates : \A j \in (i + 1)..Len(duplicates) :
                  Len(duplicates[i]) >= Len(duplicates[j])
        /\ (args.sort_by_size /\ ~args.sort_by_group) =>
              /\ \A g \in Groups : \A p \in Range(g) : Size(p) = Size(g[1])
              /\ \A i \in DOMAIN duplicates : \A j \in (i + 1)..Len(duplicates) :
                    Size(duplicates[i][1]) >= Size(duplicates[j][1])
        /\ (~args.sort_by_size /\ ~args.sort_by_group) =>
              \A i \in DOMAIN duplicates : \A j \in (i + 1)..Len(duplicates) :
                  BucketOf(duplicates[i]) < BucketOf(duplicates[j])

\* Sorted by group: the bucket of two files was first in the digest dict,
\* and the group of three is first in the list.
C20_Witness ==
    /\ pc = "returned"
    /\ args.sort_by_group /\ ~args.sort_by_size
    /\ Len(files_by_hash) = 2
    /\ Len(files_by_hash[1].files) = 2 /\ Len(files_by_hash[2].files) = 3
    /\ Len(duplicates) = 2
    /\ Len(duplicates[1]) = 3 /\ Len(duplicates[2]) = 2

(***************************************************************************)
(* C21.  A size bound written as a number and a bare suffix (K, M, G, T,   *)
(* Ki, Mi, Gi, Ti, without the B) is accepted by the normalization of      *)
(* run(), and the bound stored is the value str_file_size_to_int gives     *)
(* that string.                                                            *)
(***************************************************************************)
BareSuffixes ==
    { <<"K">>, <<"M">>, <<"G">>, <<"T">>,
      <<"K", "i">>, <<"M", "i">>, <<"G", "i">>, <<"T", "i">> }

\* Digits, then a bare suffix.
BareSuffixed(size) ==
    /\ ~size.none
    /\ LET n == PrefixLen(size.val, Digits)
       IN  n > 0 /\ Drop(size.val, n) \in BareSuffixes

C21_BareSuffixAccepted ==
    /\ (/\ pc # "start" /\ args.folder_is_dir
        /\ BareSuffixed(args.min_file_size) /\ args.max_file_size.none)
       => /\ pc # "raised"
          /\ self.min_size =
                 Some(str_file_size_to_int(args.min_file_size.val).value)
    /\ (/\ pc # "start" /\ args.folder_is_dir
        /\ BareSuffixed(args.max_file_size)
        /\ normalize_size(args.min_file_size).ok)
       => /\ pc # "raised"
          /\ self.max_size =
                 Some(str_file_size_to_int(args.max_file_size.val).value)

ItemsWith(d, p) == {i \in DOMAIN d : p \in Range(d[i].files)}
Count(files, p) == Cardinality({j \in DOMAIN files : files[j] = p})

OnceUnderOwnDigest(d, p) ==
    /\ Cardinality(ItemsWith(d, p)) = 1
    /\ \A i \in ItemsWith(d, p) :
          /\ d[i].key = digest[fs[p].content]
          /\ Count(d[i].files, p) = 1

Hashing == pc = "hash"
AfterHashing ==
    pc \in {"print", "report", "confirm", "delete", "interactive",
            "interactive_delete"}

C23_EveryTaskMergedOnce ==
    /\ AfterHashing => pending = {}
    /\ Hashing =>
          LET submitted == Range(files_to_hash(file_groups))
          IN  /\ pending \subseteq submitted
              /\ DictPaths(files_by_hash) \subseteq submitted \ pending
              /\ \A i, j \in DOMAIN files_by_hash :
                    files_by_hash[i].key = files_by_hash[j].key => i = j
              /\ \A p \in submitted \ pending :
                    IF p \in io.faulted
                    THEN ItemsWith(files_by_hash, p) = {}
                    ELSE OnceUnderOwnDigest(files_by_hash, p)

\* Four files of one size were submitted; the task of
\* /r/b completed first and that of /r/a/a.b failed; the stage is about to
\* return with the other three in the dict.
C23_Witness ==
    /\ Hashing /\ pending = {}
    /\ Range(files_to_hash(file_groups)) = {1, 2, 3, 4}
    /\ io.faulted = {4}
    /\ Len(files_by_hash) >= 1
    /\ files_by_hash[1].files[1] = 3
    /\ DictPaths(files_by_hash) = {1, 2, 3}

(***************************************************************************)
(* C24.  A hashing task that fails drops its file and nothing else: while  *)
(* the stage runs no exception leaves it and the digest dict holds exactly *)
(* the files whose task completed without failing; and a group only holds  *)
(* files of the digest dict, so the failed file is in no group.            *)
(***************************************************************************)
C24_HashFailureDropsOnlyThatFile ==
    /\ Hashing =>
          LET done == Range(files_to_hash(file_groups)) \ pending
          IN  /\ io.error = "none"
              /\ DictPaths(files_by_hash) = done \ io.faulted
    /\ GroupPaths(duplicates) \subseteq DictPaths(files_by_hash)

\* Four files of one content; the hashing of /r/a/a.b failed, and run()
\* returned the other three as one group.
C24_Witness ==
    /\ pc = "returned"
    /\ \A p \in 1..4 : fs[p].content = fs[1].content
    /\ io.faulted = {4}
    /\ DictPaths(files_by_hash) = {1, 2, 3}
    /\ Len(duplicates) = 1 /\ Range(duplicates[1]) = {1, 2, 3}

(***************************************************************************)
(* C25.  Batch deletion, dry run or not: the lines of the pass are one per *)
(* non-keeper, in the order of the groups and of the members in each       *)
(* group; the line of a file whose stat() or unlink() failed, and no       *)
(* other, is a FAILED line; and a failure stops nothing: when the pass     *)
(* is over every non-keeper has its line, and those whose line is not      *)
(* FAILED were unlinked (in a dry run, listed as "would delete").          *)
(***************************************************************************)
BatchPass ==
    /\ args.delete /\ ~args.interactive
    /\ \/ pc = "delete"
       \/ (pc = "returned" /\ ~io.cancelled /\ duplicates # <<>>)

\* The non-keepers, in the order of the two loops.
BatchOrder == Flatten([i \in DOMAIN duplicates |-> Tail(duplicates[i])])

C25_FailureStopsNothing ==
    BatchPass =>
        LET order == BatchOrder
            lines == del.report_lines
        IN  /\ Len(lines) <= Len(order)
            /\ pc = "returned" => Len(lines) = Len(order)
            /\ \A i, j \in DOMAIN lines :
                  lines[i].path = lines[j].path => i = j
            /\ \A i \in DOMAIN lines :
                  /\ lines[i].path = order[i]
                  /\ lines[i].tag = "FAILED" <=> order[i] \in io.faulted
                  /\ lines[i].tag = "Deleted" <=> order[i] \in io.unlinked
                  /\ lines[i].tag = "would delete" =>
                         (args.dry_run /\ order[i] \notin io.attempted)

\* One group of four, kept /r/a/a.b; the first non-keeper, /r/a/b, failed,
\* and the two after it were deleted.
C25_Witness ==
    /\ pc = "returned" /\ Batch
    /\ duplicates = << <<4, 2, 1, 3>> >>
    /\ del.report_lines =
           <<Line("FAILED", 2), Line("Deleted", 1), Line("Deleted", 3)>>
    /\ io.unlinked = {1, 3}

(***************************************************************************)
(* C26.  When a deletion pass is over, deleted_count is the number of      *)
(* files unlinked (the "Deleted:" lines; in a dry run, the "[would         *)
(* delete]" lines) and total_deleted_size the sum of their sizes: a file   *)
(* whose deletion failed is in neither total.                              *)
(***************************************************************************)
PassOver ==
    /\ pc = "returned" /\ duplicates # <<>> /\ ~io.cancelled
    /\ args.interactive \/ args.delete

CountedTag ==
    IF ~args.interactive /\ args.dry_run THEN "would delete" ELSE "Deleted"

RECURSIVE SizeOfLines(_, _)
SizeOfLines(lines, tag) ==
    IF lines = <<>> THEN 0
    ELSE (IF Head(lines).tag = tag THEN Size(Head(lines).path) ELSE 0)
             + SizeOfLines(Tail(lines), tag)

C26_TotalsMatchOutcomes ==
    PassOver =>
        /\ del.deleted_count = Cardinality(LinesTagged(CountedTag))
        /\ del.total_deleted_size = SizeOfLines(del.report_lines, CountedTag)
        /\ ~(~args.interactive /\ args.dry_run) =>
               del.deleted_count = Cardinality(io.unlinked)

(***************************************************************************)
(* C27.  A candidate that shares its size with no other candidate is never *)
(* given to the pool: while the stage runs, every file submitted or merged *)
(* is of a size bucket of two or more, and a file alone in its bucket is   *)
(* neither; and once the groups are made such a candidate is in no digest  *)
(* bucket and in no group.                                                 *)
(***************************************************************************)
\* The files of the size buckets of at least n files.
InBucketsOf(n) ==
    UNION {Range(file_groups[i].files) :
              i \in {j \in DOMAIN file_groups : Len(file_groups[j].files) >= n}}

C27_SingletonSizeNeverHashed ==
    /\ Hashing =>
          LET shared == InBucketsOf(2)
              hashed == pending \cup DictPaths(files_by_hash)
          IN  /\ hashed \subseteq shared
              /\ (InBucketsOf(1) \ shared) \cap hashed = {}
    /\ (Grouped /\ io.faulted = {}) =>
          LET scanned == Scanned
              alone == scanned \ ToHash(scanned)
          IN  alone \cap (DictPaths(files_by_hash) \cup GroupPaths(duplicates))
                  = {}

\* /r/a/a.b is the only candidate of two bytes: the three files of one byte
\* were hashed and grouped, /r/a/a.b is in no digest bucket and no group.
C27_Witness ==
    /\ pc = "returned" /\ io.faulted = {}
    /\ Scanned = {1, 2, 3, 4}
    /\ Size(4) = 2 /\ \A p \in {1, 2, 3} : Size(p) = 1
    /\ DictPaths(files_by_hash) = {1, 2, 3}
    /\ GroupPaths(duplicates) = {1, 2, 3}

(***************************************************************************)
(* C28.  In the dict _verify_content returns, two files are in one list    *)
(* only if files_are_identical holds for them: a reference that nothing    *)
(* matched is in no list with the files that did not match it, and a       *)
(* comparison that raised counts as no match.                              *)
(***************************************************************************)
Verified == pc = "verified"

C28_VerifiedListsShareContent ==
    Verified =>
        \A i \in DOMAIN ver.verified :
            \A p, q \in Range(ver.verified[i].files) :
                files_are_identical(fs[p].content, fs[q].content)

(***************************************************************************)
(* C29.  The verification of a digest bucket of k files terminates: every  *)
(* pass of the while loop takes at least the reference out of the working  *)
(* list, the loop is left exactly when the list is empty, at most          *)
(* k(k-1)/2 comparisons are made on the bucket, whether comparisons raise  *)
(* or not, and the call returns.                                           *)
(***************************************************************************)
Pairs(n) == (n * (n - 1)) \div 2

ComparisonsBounded ==
    /\ ver.compared + Pairs(Len(ver.group)) <= Pairs(ver.k)
    /\ ver.completed <= ver.total_comparisons
    /\ pc = "verify_while" <=> ver.group # <<>>

PassShrinks ==
    pc = "verify_while" =>
        /\ Len(ver'.group) < Len(ver.group)
        /\ Head(ver.group) \notin Range(ver'.group)
        /\ Range(ver'.group) \subseteq Range(ver.group)

C29_VerificationTerminates ==
    /\ []ComparisonsBounded
    /\ [][PassShrinks]_vars
    /\ <>Verified

\* Four files of one content in one bucket; the comparison of /r/a.b with
\* /r/b raised, so /r/b went through a second pass, alone: three
\* comparisons in all, and the call returned.
C29_Witness ==
    /\ Verified
    /\ \A p \in 1..4 : fs[p].content = fs[1].content
    /\ ver.k = 4 /\ ver.completed = 3
    /\ Len(ver.verified) = 1
    /\ ver.verified[1].files = <<1, 2, 4, 3>>

(***************************************************************************)
(* C30.  The groups of self.duplicates are pairwise disjoint and no group  *)
(* holds a path twice (the members of all the groups, listed one after     *)
(* the other, are all different): so no path is the keeper of one group    *)
(* and a non-keeper of another, and a batch deletion writes at most one    *)
(* line for a path, that is, tries at most once to unlink it, and never    *)
(* the first file of a group.                                              *)
(***************************************************************************)
C30_GroupsPairwiseDisjoint ==
    /\ duplicates # <<>> =>
          LET members == Flatten(duplicates)
          IN  /\ Len(members) = Cardinality(Range(members))
              /\ \A i \in DOMAIN duplicates :
                    duplicates[i][1] \notin
                        Range(Flatten([j \in DOMAIN duplicates |->
                                          Tail(duplicates[j])]))
    /\ BatchPass =>
          /\ \A i, j \in DOMAIN del.report_lines :
                del.report_lines[i].path = del.report_lines[j].path => i = j
          /\ Keepers \cap io.attempted = {}

\* Two groups of two files, without a file in common; the batch deletion
\* unlinked the second file of each, once, and kept the two first files.
C30_Witness ==
    /\ pc = "returned" /\ Batch /\ ~io.cancelled
    /\ Len(duplicates) = 2
    /\ Len(duplicates[1]) = 2 /\ Len(duplicates[2]) = 2
    /\ Range(duplicates[1]) \cap Range(duplicates[2]) = {}
    /\ io.unlinked = {duplicates[1][2], duplicates[2][2]}
    /\ Len(del.report_lines) = 2

====
